---- MODULE Spec2Model ----
(***************************************************************************)
(* Prediction orchestration engine of nfl-ai: the single-request pipeline  *)
(* (predict_prop), the batch orchestrator (generate_weekly_predictions),   *)
(* and the freshness sweep (cleanup_stale_predictions), all working on the *)
(* predictions table.                                                      *)
(*                                                                         *)
(* Encodings: None is the string "NULL"; a line such as 250.5 is the       *)
(* integer 2505 and a confidence of 72 is 720; datetimes are whole hours   *)
(* on the model clock; a uuid is the row's position in the table.          *)
(***************************************************************************)
EXTENDS Integers, Sequences, FiniteSets, TLC

NULL == "NULL"

\* ---------------------------------------------------------------- bounds
MaxClock == 26          \* the clock stops advancing here
TickHours == 13         \* hours that pass in one Tick
MaxPredictions == 8     \* rows the predictions table may hold
MaxOps == 3             \* requests, batch runs and sweeps started in a behaviour
MaxFaults == 1          \* collaborator failures injected in a behaviour
MaxLines == 1           \* lines of every stat type a batch run goes through

\* ------------------------------------------------------ program constants
max_age_hours == 24
CURRENT_PREDICTION_VERSION == "v2_prizepicks"
ClaudeModel == "claude-sonnet-4-5-20250929"
PredictionSeason == 2025

Prop(s, l) == [stat_type |-> s, line_score |-> l]

NOTABLE_PROPS ==
    [QB |-> << Prop("passing_yards", 2255), Prop("passing_yards", 2505),
               Prop("passing_yards", 2755),
               Prop("passing_touchdowns", 15), Prop("passing_touchdowns", 25),
               Prop("interceptions", 5), Prop("interceptions", 15) >>,
     RB |-> << Prop("rushing_yards", 505), Prop("rushing_yards", 755),
               Prop("rushing_yards", 1005),
               Prop("rushing_touchdowns", 5),
               Prop("receptions", 25), Prop("receptions", 35),
               Prop("receptions", 45) >>,
     WR |-> << Prop("receiving_yards", 505), Prop("receiving_yards", 755),
               Prop("receiving_yards", 1005),
               Prop("receptions", 35), Prop("receptions", 45),
               Prop("receptions", 55), Prop("receptions", 65),
               Prop("receiving_touchdowns", 5) >>,
     TE |-> << Prop("receiving_yards", 355), Prop("receiving_yards", 505),
               Prop("receiving_yards", 655),
               Prop("receptions", 25), Prop("receptions", 35),
               Prop("receptions", 45),
               Prop("receiving_touchdowns", 5) >>]

TrackedPositions == {"QB", "RB", "WR", "TE"}

\* the catalog of every position in its order, cut to the first MaxLines
\* lines of every stat type
Catalogs ==
    [position \in DOMAIN NOTABLE_PROPS |->
        LET all  == NOTABLE_PROPS[position]
            keep == { i \in DOMAIN all :
                        Cardinality({ j \in 1..i :
                                        all[j].stat_type = all[i].stat_type })
                            <= MaxLines }
        IN  [k \in 1..Cardinality(keep) |->
                all[CHOOSE i \in keep : Cardinality({ j \in keep : j < i }) = k - 1]]]

Catalog(position) == Catalogs[position]

\* ------------------------------------------------- the relational tables
\* players: a tracked quarterback, a receiver without a team, and a tracked
\* running back of the week-10 opponent
Players ==
    << [id |-> "p1", name |-> "Patrick Mahomes", player_position |-> "QB",
        team_id |-> "KC", status |-> "ACTIVE"],
       [id |-> "p2", name |-> "Free Agent", player_position |-> "WR",
        team_id |-> NULL, status |-> "ACTIVE"],
       [id |-> "p3", name |-> "Christian McCaffrey", player_position |-> "RB",
        team_id |-> "SF", status |-> "ACTIVE"] >>

\* prizepicks_projections: one stored prop
Projections ==
    << [id |-> "prop1", player_name |-> "Patrick Mahomes",
        stat_type |-> "passing_yards", line_score |-> 2505] >>

GameRow(i, w, h, a, t, c) ==
    [id |-> i, season |-> 2025, week |-> w, home_team_id |-> h,
     away_team_id |-> a, game_time |-> t, is_completed |-> c]

\* games: every team plays at most one game in a week
Schedules ==
    { << GameRow("g9", 9, "KC", "WSH", 20, FALSE) >> }
    \cup
    { << GameRow("g9", 9, "KC", "WSH", 20, c),
         GameRow("g10", 10, "SF", "KC", 100, FALSE) >> : c \in BOOLEAN }

\* a games table in which a team has two rows in one week
DoubleBooked ==
    << GameRow("g9", 9, "KC", "WSH", 20, FALSE),
       GameRow("g9b", 9, "DEN", "KC", 44, FALSE) >>

Weeks == {9, 10}
Seasons == {2025}

\* ------------------------------------------------------------- requests
Request(pid, n, s, l, o) ==
    [prop_id |-> pid, player_name |-> n, stat_type |-> s, line_score |-> l,
     opponent |-> o]

Requests ==
    { Request("prop1", NULL, NULL, NULL, NULL),
      Request(NULL, "Nobody", "passing_yards", 2505, NULL),
      Request(NULL, "Free Agent", "receiving_yards", 505, NULL) }
    \cup
    { Request(NULL, "Patrick Mahomes", "passing_yards", 2505, o) :
        o \in {NULL, "WSH", "wsh", "SF"} }


\* ---------------------------------------------------------------- values
NoInt == 0 - 1          \* an absent or None integer (week, game_time)

Truthy(x) == x # NULL /\ x # ""

\* str.upper() on the team abbreviations that occur
Upper(s) ==
    CASE s = "wsh" -> "WSH"
      [] s = "sf"  -> "SF"
      [] s = "kc"  -> "KC"
      [] OTHER     -> s

Or(x, default) == IF Truthy(x) THEN x ELSE default

\* result.scalar_one_or_none() over the matching rows: the row, None, or a
\* MultipleResultsFound exception
ScalarOneOrNone(rows) ==
    IF Len(rows) = 0 THEN [raised |-> FALSE, found |-> FALSE, idx |-> 0]
    ELSE IF Len(rows) = 1 THEN [raised |-> FALSE, found |-> TRUE, idx |-> 1]
    ELSE [raised |-> TRUE, found |-> FALSE, idx |-> 0]

PlayersNamed(n) == SelectSeq(Players, LAMBDA p : p.name = n)

NoPlayer == [id |-> NULL, name |-> NULL, player_position |-> NULL,
             team_id |-> NULL, status |-> NULL]

NoPropData == [found |-> FALSE, player |-> NoPlayer, stat_type |-> NULL,
               line_score |-> 0, opponent |-> NULL]

PropDataFor(n, s, l, o) ==
    LET rows == PlayersNamed(n)
        one  == ScalarOneOrNone(rows)
    IN  IF one.raised \/ ~one.found THEN NoPropData
        ELSE [found |-> TRUE, player |-> rows[1], stat_type |-> s,
              line_score |-> l, opponent |-> o]

\* _get_prop_data: a stored prop (never carries an opponent) or a manual entry
_get_prop_data(request) ==
    IF Truthy(request.prop_id)
    THEN LET props == SelectSeq(Projections, LAMBDA q : q.id = request.prop_id)
         IN  IF Len(props) = 0 THEN NoPropData
             ELSE PropDataFor(props[1].player_name, props[1].stat_type,
                              props[1].line_score, NULL)
    ELSE IF Truthy(request.player_name) /\ Truthy(request.stat_type)
            /\ request.line_score # 0
    THEN PropDataFor(request.player_name, request.stat_type,
                     request.line_score, request.opponent)
    ELSE NoPropData

\* ---------------------------------------------------- Schedule Validator
NoError == [kind |-> "none", week |-> NoInt, team |-> NULL, actual |-> NULL,
            provided |-> NULL, away |-> NULL, home |-> NULL]

ValidationError(k, w, t, act, prov, a, h) ==
    [kind |-> k, week |-> w, team |-> t, actual |-> act, provided |-> prov,
     away |-> a, home |-> h]

\* a rejection that carries no reason
Rejected_noReason(e) ==
    [ok |-> FALSE, opponent |-> NULL, week |-> NoInt, error |-> NoError]

Rejected(e) == [ok |-> FALSE, opponent |-> NULL, week |-> NoInt, error |-> e]

TeamGames(gs, season, week, team) ==
    SelectSeq(gs, LAMBDA g : g.season = season /\ g.week = week
                             /\ (g.home_team_id = team \/ g.away_team_id = team))

OtherTeam(game, team) ==
    IF game.home_team_id = team THEN game.away_team_id ELSE game.home_team_id

\* the comparison inverted: a claimed opponent passes when it differs
OpponentDiffers_inverted(provided, actual) == Upper(provided) = Upper(actual)

\* the comparison of a claimed opponent with the scheduled one
OpponentDiffers(provided, actual) == Upper(provided) # Upper(actual)

\* a validator that compares the claimed opponent before it looks at the
\* game's completion
_validate_and_get_opponent_compareFirst(gs, nfl_ok, week, season, player, provided) ==
    IF ~nfl_ok
    THEN Rejected(ValidationError("failed", NoInt, NULL, NULL, provided, NULL, NULL))
    ELSE IF ~Truthy(player.team_id)
    THEN Rejected(ValidationError("no_team", week, NULL, NULL, provided, NULL, NULL))
    ELSE
      LET rows == TeamGames(gs, season, week, player.team_id)
          one  == ScalarOneOrNone(rows)
      IN  IF one.raised
          THEN Rejected(ValidationError("failed", week, player.team_id, NULL,
                                        provided, NULL, NULL))
          ELSE IF Truthy(provided) /\ (~one.found
                     \/ OpponentDiffers(provided, OtherTeam(rows[1], player.team_id)))
          THEN Rejected(ValidationError("mismatch", week, player.team_id,
                            NULL, provided, NULL, NULL))
          ELSE IF ~one.found
          THEN Rejected(ValidationError("no_game", week, player.team_id, NULL,
                                        provided, NULL, NULL))
          ELSE IF rows[1].is_completed
          THEN Rejected(ValidationError("completed", week, player.team_id,
                            NULL, provided, rows[1].away_team_id,
                            rows[1].home_team_id))
          ELSE [ok |-> TRUE, opponent |-> OtherTeam(rows[1], player.team_id),
                week |-> week, error |-> NoError]

\* _validate_and_get_opponent; nfl_ok is whether get_nfl_state() answered
_validate_and_get_opponent(gs, nfl_ok, week, season, player, provided) ==
    IF ~nfl_ok
    THEN Rejected(ValidationError("failed", NoInt, NULL, NULL, provided, NULL, NULL))
    ELSE IF ~Truthy(player.team_id)
    THEN Rejected(ValidationError("no_team", week, NULL, NULL, provided, NULL, NULL))
    ELSE
      LET rows == TeamGames(gs, season, week, player.team_id)
          one  == ScalarOneOrNone(rows)
      IN  IF one.raised
          THEN Rejected(ValidationError("failed", week, player.team_id, NULL,
                                        provided, NULL, NULL))
          ELSE IF ~one.found
          THEN Rejected(ValidationError("no_game", week, player.team_id, NULL,
                                        provided, NULL, NULL))
          ELSE
            LET game   == rows[1]
                actual == OtherTeam(game, player.team_id)
            IN  IF game.is_completed
                THEN Rejected(ValidationError("completed", week, player.team_id,
                                  NULL, provided, game.away_team_id,
                                  game.home_team_id))
                ELSE IF Truthy(provided) /\ OpponentDiffers(provided, actual)
                THEN Rejected(ValidationError("mismatch", week, player.team_id,
                                  actual, provided, game.away_team_id,
                                  game.home_team_id))
                ELSE [ok |-> TRUE, opponent |-> actual, week |-> week,
                      error |-> NoError]

\* -------------------------------------------------------- context steps
\* _get_matchup_context: the dict carries the opponent; it has no "week" and
\* no "game_time" key unless the caller adds them
_get_matchup_context(player, opponent) ==
    [opponent |-> Or(opponent, "Unknown"), week |-> NoInt, game_time |-> NoInt]

\* --------------------------------------------------------- Stat Aggregator
\* player_game_stats: a metric column is a number, or NoInt where the stat
\* was not recorded (NULL)
StatRow(p, season, week, ry, rtd, rec) ==
    [player_id |-> p, season |-> season, week |-> week,
     receiving_yards |-> NoInt, receiving_receptions |-> rec,
     receiving_touchdowns |-> NoInt, rushing_yards |-> ry,
     rushing_attempts |-> NoInt, rushing_touchdowns |-> rtd,
     passing_yards |-> NoInt, passing_touchdowns |-> NoInt,
     passing_completions |-> NoInt, interceptions |-> NoInt,
     fantasy_points |-> NoInt]

\* the running back has five games this season, one of them without rushing
\* yards and one without receptions, and a game of the season before; the
\* quarterback and the receiver have none
PlayerGameStats ==
    << StatRow("p3", 2024, 17, 30, 2, 9),
       StatRow("p3", 2025, 4, 10, 0, 4),
       StatRow("p3", 2025, 5, 6, 1, 2),
       StatRow("p3", 2025, 6, 4, 0, NoInt),
       StatRow("p3", 2025, 7, NoInt, NoInt, 3),
       StatRow("p3", 2025, 8, 8, 1, 5) >>

\* the keys of stat_mapping
StatMappingKeys ==
    {"receiving_yards", "receiving_receptions", "receiving_touchdowns",
     "rushing_yards", "rushing_attempts", "rushing_touchdowns",
     "passing_yards", "passing_touchdowns", "passing_completions",
     "interceptions", "fantasy_points"}

\* _extract_stat_value: stat_mapping.get(stat_type), None for a name that is
\* no key of the mapping
_extract_stat_value(game_stat, stat_type) ==
    IF stat_type \in StatMappingKeys THEN game_stat[stat_type] ELSE NoInt

\* order_by(desc(PlayerGameStats.week)) over the rows of the WHERE clause
RECURSIVE ByWeekDesc(_)
ByWeekDesc(rows) ==
    IF rows = {} THEN << >>
    ELSE LET latest == CHOOSE g \in rows : \A h \in rows : h.week <= g.week
         IN  << latest >> \o ByWeekDesc(rows \ {latest})

SeasonGames(table, player_id, season) ==
    ByWeekDesc({ table[i] : i \in { j \in DOMAIN table :
                    /\ table[j].player_id = player_id
                    /\ table[j].season = season } })

RECURSIVE Sum(_)
Sum(seq) == IF Len(seq) = 0 THEN 0 ELSE Head(seq) + Sum(Tail(seq))

Min(seq) == CHOOSE x \in { seq[i] : i \in DOMAIN seq } :
                \A i \in DOMAIN seq : x <= seq[i]
Max(seq) == CHOOSE x \in { seq[i] : i \in DOMAIN seq } :
                \A i \in DOMAIN seq : seq[i] <= x

\* round(sum / n, 2), in hundredths
Mean100(seq) == (200 * Sum(seq) + Len(seq)) \div (2 * Len(seq))

\* round(variance ** 0.5, 2), in hundredths: the population variance is
\* (n * sum(x^2) - sum(x)^2) / n^2
StdDev100(seq) ==
    LET n  == Len(seq)
        sq == [i \in DOMAIN seq |-> seq[i] * seq[i]]
        v  == 10000 * (n * Sum(sq) - Sum(seq) * Sum(seq))
    IN  CHOOSE s \in 0..(100 * (Max(seq) - Min(seq))) :
            /\ (2 * s - 1) * (2 * s - 1) * n * n <= 4 * v
            /\ 4 * v < (2 * s + 1) * (2 * s + 1) * n * n

FirstThree(seq) == SubSeq(seq, 1, IF Len(seq) < 3 THEN Len(seq) ELSE 3)

\* the dict of the "except Exception" branch: {}
EmptyBundle ==
    [keys |-> {}, games_played |-> 0, avg_per_game |-> 0, last_3_games |-> << >>,
     std_dev |-> 0, min |-> 0, max |-> 0]

ShortKeys == {"games_played", "avg_per_game", "last_3_games", "std_dev", "season"}

\* a zero-games branch that hands back the dict of a failure
ZeroBundle_failed == EmptyBundle

\* the dict of a player without games this season
ZeroBundle == [EmptyBundle EXCEPT !.keys = ShortKeys]

\* _get_current_season_stats; db_ok is whether the query answered. The mean
\* and the deviation are in hundredths
_get_current_season_stats(table, player_id, stat_type, db_ok) ==
    LET game_stats  == SeasonGames(table, player_id, PredictionSeason)
        ix          == { i \in DOMAIN game_stats :
                           _extract_stat_value(game_stats[i], stat_type) # NoInt }
        stat_values == [k \in 1..Cardinality(ix) |->
                           _extract_stat_value(
                               game_stats[CHOOSE i \in ix :
                                   Cardinality({ j \in ix : j < i }) = k - 1],
                               stat_type)]
    IN  IF ~db_ok THEN EmptyBundle
        ELSE IF Len(game_stats) = 0 THEN ZeroBundle
        ELSE IF Len(stat_values) = 0
        THEN [ZeroBundle EXCEPT !.games_played = Len(game_stats)]
        ELSE [keys |-> ShortKeys \cup {"min", "max"},
              games_played |-> Len(game_stats),
              avg_per_game |-> Mean100(stat_values),
              last_3_games |-> FirstThree(stat_values),
              std_dev |-> StdDev100(stat_values),
              min |-> Min(stat_values), max |-> Max(stat_values)]

\* a retrieval that hands back hits although the embedding call failed
find_similar_performances_stale(hits, rag_ok) == hits

\* find_similar_performances: the hits of the vector index for the player,
\* or [] when the embedding call or the index fails
find_similar_performances(hits, rag_ok) == IF rag_ok THEN hits ELSE 0

\* ------------------------------------------------------ Reasoning Invoker
\* the provider's response text: whether json.loads accepts it, the keys of
\* the object, and the values; a confidence is kept in tenths (72.5 is 725)
RequiredFields == {"prediction", "confidence", "projected_value", "reasoning"}

Raw(j, f, p, c) ==
    [json |-> j, fields |-> f, prediction |-> p, confidence |-> c,
     projected_value |-> 2600]

NoRaw == Raw(FALSE, {}, NULL, NoInt)

GoodResponses == { Raw(TRUE, RequiredFields, "OVER", 720) }

\* a JSON number with a fraction where the prompt asks for 0-100
FractionalResponses == { Raw(TRUE, RequiredFields, "OVER", 725) }

BadResponses ==
    { Raw(FALSE, {}, NULL, 0) }
    \cup { Raw(TRUE, RequiredFields \ {f}, "OVER", 720) : f \in RequiredFields }
    \cup { Raw(TRUE, RequiredFields, "FLAT", 720),
           Raw(TRUE, RequiredFields, "OVER", 1010),
           Raw(TRUE, RequiredFields, "UNDER", 0 - 10) }

\* the responses the provider may give while failures may still be injected
Responses(faults) ==
    GoodResponses
    \cup (IF faults > 0 THEN BadResponses \cup FractionalResponses ELSE {})

NoResult == [ok |-> FALSE, prediction |-> NULL, confidence |-> 0,
             projected_value |-> 0, model |-> NULL]

\* a parser that fills in what the response lacks or gets wrong
_parse_response_defaulting(raw) ==
    IF ~raw.json THEN NoResult
    ELSE [ok |-> TRUE,
          prediction |-> IF raw.prediction \in {"OVER", "UNDER"}
                         THEN raw.prediction ELSE "OVER",
          confidence |-> IF "confidence" \in raw.fields /\ 0 <= raw.confidence
                            /\ raw.confidence <= 1000
                         THEN raw.confidence ELSE 500,
          projected_value |-> raw.projected_value, model |-> ClaudeModel]

\* _parse_response followed by the metadata stamp of predict_prop
_parse_response(raw) ==
    IF ~raw.json THEN NoResult
    ELSE IF ~(RequiredFields \subseteq raw.fields) THEN NoResult
    ELSE IF raw.prediction \notin {"OVER", "UNDER"} THEN NoResult
    ELSE IF ~(0 <= raw.confidence /\ raw.confidence <= 1000) THEN NoResult
    ELSE [ok |-> TRUE, prediction |-> raw.prediction,
          confidence |-> raw.confidence,
          projected_value |-> raw.projected_value, model |-> ClaudeModel]

\* the confidence column is Integer: the driver refuses a number with a
\* fraction as its parameter, so the INSERT raises
IntegerColumnAccepts(tenths) == tenths % 10 = 0

\* -------------------------------------------------------- predictions rows
PredictionRow(id, prop_id, player_id, position, team, opponent, week, game_time, stat_type, line_score, result, similar, now) ==
    [id |-> id, prop_id |-> prop_id, player_id |-> player_id,
     player_position |-> position, team |-> team,
     opponent |-> opponent, week |-> week, season |-> PredictionSeason,
     game_time |-> game_time, stat_type |-> stat_type,
     line_score |-> line_score, prediction |-> result.prediction,
     confidence |-> result.confidence,
     projected_value |-> result.projected_value,
     edge |-> result.projected_value - line_score,
     model_version |-> result.model, similar_situations_count |-> similar,
     is_active |-> TRUE, is_archived |-> FALSE,
     created_at |-> now, updated_at |-> now]

\* predict_prop storing the opponent the caller claimed, when it claimed one
RequestPrediction_claimed(id, request, player, opponent, matchup_context, stat_type, line_score, result, similar, now) ==
    PredictionRow(id, request.prop_id, player.id,
                  Or(player.player_position, "Unknown"),
                  Or(player.team_id, "Unknown"),
                  Or(request.opponent, Or(opponent, "Unknown")),
                  IF matchup_context.week = NoInt THEN 0 ELSE matchup_context.week,
                  matchup_context.game_time, stat_type, line_score, result,
                  similar, now)

\* the row predict_prop adds
RequestPrediction(id, request, player, opponent, matchup_context, stat_type, line_score, result, similar, now) ==
    PredictionRow(id, request.prop_id, player.id,
                  Or(player.player_position, "Unknown"),
                  Or(player.team_id, "Unknown"),
                  Or(opponent, "Unknown"),
                  IF matchup_context.week = NoInt THEN 0 ELSE matchup_context.week,
                  matchup_context.game_time, stat_type, line_score, result,
                  similar, now)

\* the row _generate_single_prediction adds
BatchPrediction(id, player, opponent, week, game_time, stat_type, line_score, result, similar, now) ==
    PredictionRow(id, NULL, player.id, player.player_position,
                  player.team_id, opponent, week,
                  game_time, stat_type, line_score, result, similar, now)


\* ------------------------------------------------------------------ state
VARIABLES
    clock,          \* datetime.utcnow(), in hours
    games,          \* the games table (read-only here)
    nfl_week,       \* the week get_nfl_state() reports
    vector_hits,    \* similar performances the vector index returns for a query
    predictions,    \* the predictions table, in insertion order
    req,            \* the single request in flight (predict_prop)
    batch,          \* the batch runs (generate_weekly_predictions)
    sweep,          \* the freshness sweeps (cleanup_stale_predictions)
    concurrent,     \* how many operations may be in flight at once
    budget          \* operations, batch runs and injected failures still allowed

vars == << clock, games, nfl_week, vector_hits, predictions, req, batch,
           sweep, concurrent, budget >>

Runs == {1, 2, 3}
Sweepers == {1, 2}

NoContext == [opponent |-> NULL, week |-> NoInt, game_time |-> NoInt]

NoResponse == [status |-> 0, raised |-> 0, error |-> NoError, id |-> 0]

IdleRequest ==
    [pc |-> "idle", request |-> Request(NULL, NULL, NULL, 0, NULL),
     player |-> NoPlayer, stat_type |-> NULL, line_score |-> 0,
     opponent |-> NULL, current_week |-> NoInt, matchup_context |-> NoContext,
     current_stats |-> EmptyBundle, aborted |-> FALSE,
     similar |-> 0, rag_error |-> FALSE, raw |-> NoRaw, result |-> NoResult,
     response |-> NoResponse, trace |-> << >>]

NoSummary == [returned |-> FALSE, keys |-> {}, predictions_generated |-> 0,
              predictions_failed |-> 0, games_found |-> 0,
              players_processed |-> 0]

IdleRun ==
    [pc |-> "idle", week |-> NoInt, season |-> NoInt, games |-> << >>,
     players |-> << >>, pi |-> 1, ci |-> 1, opponent |-> NULL,
     game_time |-> NoInt, current_stats |-> EmptyBundle, aborted |-> FALSE,
     similar |-> 0, rag_error |-> FALSE, raw |-> NoRaw,
     result |-> NoResult, predictions_generated |-> 0, predictions_failed |-> 0,
     generated |-> {}, trace |-> << >>, summary |-> NoSummary]

ZeroCounts == [past_game_time |-> 0, too_old |-> 0, wrong_version |-> 0,
               total |-> 0]

IdleSweep == [pc |-> "idle", now |-> NoInt, cutoff_time |-> NoInt,
              counts |-> ZeroCounts]

\* no operation is in flight (a run or a sweep that returned stays "done")
AllIdle ==
    /\ req.pc = "idle"
    /\ \A r \in Runs : batch[r].pc \in {"idle", "done"}
    /\ \A s \in Sweepers : sweep[s].pc \in {"idle", "done"}

\* the operations in flight
InFlight ==
    (IF req.pc = "idle" THEN 0 ELSE 1)
    + Cardinality({ r \in Runs : batch[r].pc \notin {"idle", "done"} })
    + Cardinality({ s \in Sweepers : sweep[s].pc \notin {"idle", "done"} })

MayStart == InFlight < concurrent

\* a collaborator failure may be injected while the budget lasts
Outcomes == IF budget.faults > 0 THEN BOOLEAN ELSE {TRUE}

Spend(ok) == IF ok THEN budget ELSE [budget EXCEPT !.faults = @ - 1]

InitStore ==
    /\ clock = 0
    /\ vector_hits = 2
    /\ predictions = << >>
    /\ req = IdleRequest
    /\ batch = [r \in Runs |-> IdleRun]
    /\ sweep = [s \in Sweepers |-> IdleSweep]

InitData ==
    /\ InitStore
    /\ games \in Schedules
    /\ nfl_week \in Weeks

Init ==
    /\ InitData
    /\ concurrent = 1
    /\ budget = [ops |-> MaxOps, runs |-> 2, faults |-> 0]

\* ------------------------------------------------------------------ clock
Tick ==
    /\ AllIdle
    /\ clock + TickHours <= MaxClock
    /\ clock' = clock + TickHours
    /\ UNCHANGED << games, nfl_week, vector_hits, predictions, req, batch,
                    sweep, concurrent, budget >>

\* ------------------------------------------------- predict_prop, by step
HttpError(status, raised, error) ==
    [status |-> status, raised |-> raised, error |-> error, id |-> 0]

\* the HTTPException raised inside the try block is caught by its
\* "except Exception" and re-raised with status 500, the detail kept
Wrapped(raised, error) == HttpError(500, raised, error)

ReqUnchanged == UNCHANGED << clock, games, nfl_week, vector_hits, batch,
                             sweep, concurrent >>

\* the request arrives; _get_prop_data
ReqStart(request) ==
    /\ req.pc = "idle"
    /\ MayStart
    /\ budget.ops > 0
    /\ budget' = [budget EXCEPT !.ops = @ - 1]
    /\ LET prop_data == _get_prop_data(request)
       IN  IF ~prop_data.found
           THEN req' = [IdleRequest EXCEPT !.pc = "done", !.request = request,
                            !.response = Wrapped(404, NoError)]
           ELSE req' = [IdleRequest EXCEPT !.pc = "validate",
                            !.request = request,
                            !.player = prop_data.player,
                            !.stat_type = prop_data.stat_type,
                            !.line_score = prop_data.line_score,
                            !.opponent = prop_data.opponent]
    /\ UNCHANGED predictions
    /\ ReqUnchanged

\* _validate_and_get_opponent and the check of its answer
ReqValidate ==
    /\ req.pc = "validate"
    /\ \E nfl_ok \in Outcomes :
         /\ budget' = Spend(nfl_ok)
         /\ LET v == _validate_and_get_opponent(games, nfl_ok, nfl_week,
                         PredictionSeason, req.player, req.opponent)
            IN  IF ~v.ok
                THEN req' = [req EXCEPT !.pc = "done",
                                 !.trace = Append(@, "rejected"),
                                 !.response = Wrapped(400, v.error)]
                ELSE req' = [req EXCEPT !.pc = "aggregate",
                                 !.trace = Append(@, "validate"),
                                 !.opponent = v.opponent,
                                 !.current_week = v.week]
    /\ UNCHANGED predictions
    /\ ReqUnchanged

\* _get_current_season_stats, _get_matchup_context, _get_injury_context:
\* each catches its own failure and hands back a dict; the statement that
\* failed leaves the session's transaction aborted
ReqAggregate ==
    /\ req.pc = "aggregate"
    /\ \E db_ok \in Outcomes :
         /\ budget' = Spend(db_ok)
         /\ req' = [req EXCEPT !.pc = "retrieve",
                        !.trace = Append(@, "aggregate"),
                        !.current_stats =
                            _get_current_season_stats(PlayerGameStats,
                                req.player.id, req.stat_type, db_ok),
                        !.aborted = ~db_ok,
                        !.matchup_context =
                            _get_matchup_context(req.player, req.opponent)]
    /\ UNCHANGED predictions
    /\ ReqUnchanged

\* the retrieval inside try/except: a failure leaves similar_situations = []
ReqRetrieve ==
    /\ req.pc = "retrieve"
    /\ \E rag_ok \in Outcomes :
         /\ budget' = Spend(rag_ok)
         /\ req' = [req EXCEPT !.pc = "reason",
                        !.trace = Append(@, "retrieve"),
                        !.rag_error = ~rag_ok,
                        !.similar = find_similar_performances(vector_hits, rag_ok)]
    /\ UNCHANGED predictions
    /\ ReqUnchanged

\* claude_service.predict_prop: the provider call and _parse_response
ReqReason ==
    /\ req.pc = "reason"
    /\ \E raw \in Responses(budget.faults) :
         LET result == _parse_response(raw)
         IN  /\ budget' = Spend(raw \in GoodResponses)
             /\ IF result.ok
                THEN req' = [req EXCEPT !.pc = "persist",
                                 !.trace = Append(@, "reason"),
                                 !.raw = raw, !.result = result]
                ELSE req' = [req EXCEPT !.pc = "done",
                                 !.trace = Append(@, "reason"),
                                 !.raw = raw,
                                 !.response = HttpError(500, 0, NoError)]
    /\ UNCHANGED predictions
    /\ ReqUnchanged

\* db.add and db.commit; a failed commit leaves no row (get_db rolls back)
ReqPersist ==
    /\ req.pc = "persist"
    /\ Len(predictions) < MaxPredictions
    /\ \E db_ok \in Outcomes :
         /\ budget' = Spend(db_ok)
         /\ IF db_ok /\ ~req.aborted /\ IntegerColumnAccepts(req.result.confidence)
            THEN /\ predictions' = Append(predictions,
                        RequestPrediction(Len(predictions) + 1, req.request,
                            req.player, req.opponent, req.matchup_context,
                            req.stat_type, req.line_score, req.result,
                            req.similar, clock))
                 /\ req' = [req EXCEPT !.pc = "done",
                                !.trace = Append(@, "persist"),
                                !.response = [status |-> 200, raised |-> 0,
                                              error |-> NoError,
                                              id |-> Len(predictions) + 1]]
            ELSE /\ predictions' = predictions
                 /\ req' = [req EXCEPT !.pc = "done",
                                !.trace = Append(@, "persist_failed"),
                                !.response = HttpError(500, 0, NoError)]
    /\ ReqUnchanged

\* the response has been sent
ReqFinish ==
    /\ req.pc = "done"
    /\ req' = IdleRequest
    /\ UNCHANGED << predictions, budget >>
    /\ ReqUnchanged


\* ------------------------------- generate_weekly_predictions, by step
BatchUnchanged == UNCHANGED << clock, games, nfl_week, vector_hits, req,
                               sweep, concurrent >>

\* the key of the existence check
Tuple(row) == << row.player_id, row.stat_type, row.line_score, row.week >>

\* select(Game) of the week that are not completed
WeekGames(gs, week, season) ==
    SelectSeq(gs, LAMBDA g : g.week = week /\ g.season = season
                             /\ ~g.is_completed)

TeamIds(gs) == { gs[i].home_team_id : i \in DOMAIN gs }
               \cup { gs[i].away_team_id : i \in DOMAIN gs }

\* select(Player) of those teams, tracked positions, active
NotablePlayers(gs) ==
    SelectSeq(Players, LAMBDA p : /\ p.team_id \in TeamIds(gs)
                                  /\ p.player_position \in TrackedPositions
                                  /\ p.status = "ACTIVE")

\* "for game in games": the first game the player's team plays in
PlayerGames(gs, team) ==
    SelectSeq(gs, LAMBDA g : g.home_team_id = team \/ g.away_team_id = team)

FullSummary(run) ==
    [returned |-> TRUE,
     keys |-> {"predictions_generated", "predictions_failed", "games_found",
               "players_processed"},
     predictions_generated |-> run.predictions_generated,
     predictions_failed |-> run.predictions_failed,
     games_found |-> Len(run.games),
     players_processed |-> Len(run.players)]

EmptySummary ==
    [NoSummary EXCEPT !.returned = TRUE,
                      !.keys = {"predictions_generated", "games_found"}]

\* the three nested loops: from (pi, ci) to the next combination that reaches
\* the existence check, or to the return statement
RECURSIVE Advance(_)
Advance(run) ==
    IF run.pi > Len(run.players)
    THEN [run EXCEPT !.pc = "done", !.summary = FullSummary(run)]
    ELSE LET player == run.players[run.pi]
             mine   == PlayerGames(run.games, player.team_id)
         IN  IF player.player_position \notin DOMAIN NOTABLE_PROPS \/ Len(mine) = 0
             THEN Advance([run EXCEPT !.pi = @ + 1, !.ci = 1])
             ELSE IF run.ci > Len(Catalog(player.player_position))
             THEN Advance([run EXCEPT !.pi = @ + 1, !.ci = 1])
             ELSE [run EXCEPT !.pc = "check",
                              !.opponent = OtherTeam(mine[1], player.team_id),
                              !.game_time = mine[1].game_time]

\* "continue", or the end of the loop body: the locals of the combination go
NextCombination(run) ==
    Advance([run EXCEPT !.ci = @ + 1, !.current_stats = EmptyBundle,
                        !.similar = 0, !.rag_error = FALSE,
                        !.raw = NoRaw, !.result = NoResult, !.trace = << >>])

RunPlayer(run) == run.players[run.pi]
RunProp(run) == Catalog(RunPlayer(run).player_position)[run.ci]

\* the games and players queries, and the entry into the loops
BatchStart(r, week, season) ==
    /\ batch[r].pc = "idle"
    /\ \A q \in Runs : q < r => batch[q].pc # "idle"
    /\ MayStart
    /\ budget.ops > 0 /\ budget.runs > 0
    /\ budget' = [budget EXCEPT !.ops = @ - 1, !.runs = @ - 1]
    /\ LET gs == WeekGames(games, week, season)
       IN  IF Len(gs) = 0
           THEN batch' = [batch EXCEPT ![r] =
                    [IdleRun EXCEPT !.pc = "done", !.week = week,
                         !.season = season, !.summary = EmptySummary]]
           ELSE batch' = [batch EXCEPT ![r] =
                    Advance([IdleRun EXCEPT !.week = week, !.season = season,
                                 !.games = gs,
                                 !.players = NotablePlayers(gs)])]
    /\ UNCHANGED predictions
    /\ BatchUnchanged

\* the existence check keyed on the player's name instead of the player's id
ExistingRows_byName(rows, player, prop, week) ==
    SelectSeq(rows, LAMBDA x : /\ x.player_id = player.name
                               /\ x.stat_type = prop.stat_type
                               /\ x.line_score = prop.line_score
                               /\ x.week = week
                               /\ x.is_active)

\* select(Prediction) on player, stat type, line, week and is_active
ExistingRows(rows, player, prop, week) ==
    SelectSeq(rows, LAMBDA x : /\ x.player_id = player.id
                               /\ x.stat_type = prop.stat_type
                               /\ x.line_score = prop.line_score
                               /\ x.week = week
                               /\ x.is_active)

\* an "except" that counts the failure and gives up the rest of the catalog
OuterExcept_abort(run) ==
    LET failed == [run EXCEPT !.predictions_failed = @ + 1]
    IN  [failed EXCEPT !.pc = "done", !.summary = FullSummary(failed)]

\* a failed generation after which the loop goes on without the delay
ReturnedNone_continue(run) ==
    NextCombination([run EXCEPT !.predictions_failed = @ + 1])

\* a failure handler that returns None without rolling back
ReturnedNone_noRollback(run) ==
    [run EXCEPT !.pc = "sleep", !.predictions_failed = @ + 1]

\* the loop's "except Exception": the combination is counted as failed and
\* the loop goes on with the next one
OuterExcept(run) ==
    NextCombination([run EXCEPT !.predictions_failed = @ + 1])

\* _generate_single_prediction caught a failure, rolled back and returned
\* None: the combination is counted as failed, the delay follows
ReturnedNone(run) ==
    [run EXCEPT !.pc = "sleep", !.aborted = FALSE, !.predictions_failed = @ + 1]

\* the existence check: skip, go on to generate, or fail when the query
\* fails or finds several rows; a query on an aborted transaction fails, and
\* the loop's "except" does not roll back
BatchCheck(r) ==
    /\ batch[r].pc = "check"
    /\ \E db_ok \in Outcomes :
         LET run == batch[r]
             existing == ScalarOneOrNone(
                            ExistingRows(predictions, RunPlayer(run),
                                         RunProp(run), run.week))
         IN  /\ budget' = Spend(db_ok)
             /\ IF ~db_ok \/ run.aborted
                THEN batch' = [batch EXCEPT ![r] =
                         OuterExcept([run EXCEPT !.aborted = TRUE])]
                ELSE IF existing.raised
                THEN batch' = [batch EXCEPT ![r] = OuterExcept(run)]
                ELSE IF existing.found
                THEN batch' = [batch EXCEPT ![r] = NextCombination(run)]
                ELSE batch' = [batch EXCEPT ![r] =
                         [run EXCEPT !.pc = "aggregate"]]
    /\ UNCHANGED predictions
    /\ BatchUnchanged

\* _generate_single_prediction: the context reads, which catch their own
\* failures
BatchAggregate(r) ==
    /\ batch[r].pc = "aggregate"
    /\ \E db_ok \in Outcomes :
         LET run == batch[r]
         IN  /\ budget' = Spend(db_ok)
             /\ batch' = [batch EXCEPT ![r] =
                    [run EXCEPT !.pc = "retrieve",
                                !.trace = Append(@, "aggregate"),
                                !.current_stats =
                                    _get_current_season_stats(PlayerGameStats,
                                        RunPlayer(run).id,
                                        RunProp(run).stat_type, db_ok),
                                !.aborted = ~db_ok]]
    /\ UNCHANGED predictions
    /\ BatchUnchanged

\* _generate_single_prediction: the retrieval inside try/except
BatchRetrieve(r) ==
    /\ batch[r].pc = "retrieve"
    /\ \E rag_ok \in Outcomes :
         /\ budget' = Spend(rag_ok)
         /\ batch' = [batch EXCEPT ![r] =
                [@ EXCEPT !.pc = "reason", !.trace = Append(@, "retrieve"),
                          !.rag_error = ~rag_ok,
                          !.similar = find_similar_performances(vector_hits, rag_ok)]]
    /\ UNCHANGED predictions
    /\ BatchUnchanged

\* _generate_single_prediction: the provider call and _parse_response
BatchReason(r) ==
    /\ batch[r].pc = "reason"
    /\ \E raw \in Responses(budget.faults) :
         LET result == _parse_response(raw)
             run    == [batch[r] EXCEPT !.trace = Append(@, "reason"),
                                        !.raw = raw]
         IN  /\ budget' = Spend(raw \in GoodResponses)
             /\ IF result.ok
                THEN batch' = [batch EXCEPT ![r] =
                         [run EXCEPT !.pc = "persist", !.result = result]]
                ELSE batch' = [batch EXCEPT ![r] = ReturnedNone(run)]
    /\ UNCHANGED predictions
    /\ BatchUnchanged

\* _generate_single_prediction: db.add and db.commit; a failed flush or
\* commit leaves the transaction aborted until the rollback of the "except"
BatchPersist(r) ==
    /\ batch[r].pc = "persist"
    /\ Len(predictions) < MaxPredictions
    /\ \E db_ok \in Outcomes :
         LET run == batch[r]
             row == BatchPrediction(Len(predictions) + 1, RunPlayer(run),
                        run.opponent, run.week, run.game_time,
                        RunProp(run).stat_type, RunProp(run).line_score,
                        run.result, run.similar, clock)
         IN  /\ budget' = Spend(db_ok)
             /\ IF db_ok /\ ~run.aborted /\ IntegerColumnAccepts(run.result.confidence)
                THEN /\ predictions' = Append(predictions, row)
                     /\ batch' = [batch EXCEPT ![r] =
                            [run EXCEPT !.pc = "sleep",
                                        !.trace = Append(@, "persist"),
                                        !.predictions_generated = @ + 1,
                                        !.generated = @ \cup {Tuple(row)}]]
                ELSE /\ predictions' = predictions
                     /\ batch' = [batch EXCEPT ![r] =
                            ReturnedNone([run EXCEPT
                                !.aborted = TRUE,
                                !.trace = Append(@, "persist_failed")])]
    /\ BatchUnchanged

\* asyncio.sleep(0.5), then the next combination
BatchSleep(r) ==
    /\ batch[r].pc = "sleep"
    /\ batch' = [batch EXCEPT ![r] = NextCombination(batch[r])]
    /\ UNCHANGED << predictions, budget >>
    /\ BatchUnchanged


\* ---------------------------------- cleanup_stale_predictions, by step
SweepUnchanged == UNCHANGED << clock, games, nfl_week, vector_hits, req,
                               batch, concurrent, budget >>

\* the first WHERE clause without its is_active condition
PastGameTime_anyRow(x, now) == x.game_time # NoInt /\ x.game_time < now

\* the third WHERE clause with the comparison turned round
WrongVersion_inverted(x) == x.is_active /\ x.model_version # NULL
                            /\ x.model_version = CURRENT_PREDICTION_VERSION

\* the second WHERE clause without its is_active condition
TooOld_anyRow(x, cutoff) == x.created_at < cutoff

\* the three WHERE clauses (a comparison with a NULL column selects nothing)
PastGameTime(x, now) == x.is_active /\ x.game_time # NoInt /\ x.game_time < now
TooOld(x, cutoff) == x.is_active /\ x.created_at < cutoff
WrongVersion(x) == x.is_active /\ x.model_version # NULL
                   /\ x.model_version # CURRENT_PREDICTION_VERSION

\* an update that also clears the row's direction and confidence
Deactivated_cleared(x, now) ==
    [x EXCEPT !.is_active = FALSE, !.updated_at = now, !.prediction = NULL,
              !.confidence = 0]

\* .values(is_active=False, updated_at=now)
Deactivated(x, now) == [x EXCEPT !.is_active = FALSE, !.updated_at = now]

\* update(Prediction).where(...).values(is_active=False, updated_at=now)
UpdatePast(rows, now) ==
    [i \in DOMAIN rows |->
        IF PastGameTime(rows[i], now) THEN Deactivated(rows[i], now) ELSE rows[i]]
\* the second update recomputing the flag of every row from its age
UpdateOld_recompute(rows, now, cutoff) ==
    [i \in DOMAIN rows |->
        [rows[i] EXCEPT !.is_active = ~(rows[i].created_at < cutoff),
                        !.updated_at = now]]

UpdateOld(rows, now, cutoff) ==
    [i \in DOMAIN rows |->
        IF TooOld(rows[i], cutoff) THEN Deactivated(rows[i], now) ELSE rows[i]]
UpdateVersion(rows, now) ==
    [i \in DOMAIN rows |->
        IF WrongVersion(rows[i]) THEN Deactivated(rows[i], now) ELSE rows[i]]

\* a rowcount that takes in the rows of another version already inactive
CountVersion_all(rows) ==
    Cardinality({i \in DOMAIN rows :
                   rows[i].model_version # CURRENT_PREDICTION_VERSION})

\* result.rowcount of each update
CountPast(rows, now) == Cardinality({i \in DOMAIN rows : PastGameTime(rows[i], now)})
CountOld(rows, cutoff) == Cardinality({i \in DOMAIN rows : TooOld(rows[i], cutoff)})
CountVersion(rows) == Cardinality({i \in DOMAIN rows : WrongVersion(rows[i])})

\* the whole sweep on a table at an instant: the table and the counts returned
cleanup_stale_predictions(rows, now) ==
    LET cutoff == now - max_age_hours
        r1 == UpdatePast(rows, now)
        r2 == UpdateOld(r1, now, cutoff)
        r3 == UpdateVersion(r2, now)
        p  == CountPast(rows, now)
        o  == CountOld(r1, cutoff)
        v  == CountVersion(r2)
    IN  [rows |-> r3,
         counts |-> [past_game_time |-> p, too_old |-> o, wrong_version |-> v,
                     total |-> p + o + v]]

\* now = utcnow(); cutoff_time = now - 24h
SweepStart(s) ==
    /\ sweep[s].pc = "idle"
    /\ \A q \in Sweepers : q < s => sweep[q].pc # "idle"
    /\ MayStart
    /\ budget.ops > 0
    /\ budget' = [budget EXCEPT !.ops = @ - 1]
    /\ sweep' = [sweep EXCEPT ![s] =
            [pc |-> "past", now |-> clock, cutoff_time |-> clock - max_age_hours,
             counts |-> ZeroCounts]]
    /\ UNCHANGED << predictions, clock, games, nfl_week, vector_hits, req,
                    batch, concurrent >>

\* 1. predictions past game time
SweepPast(s) ==
    /\ sweep[s].pc = "past"
    /\ predictions' = UpdatePast(predictions, sweep[s].now)
    /\ sweep' = [sweep EXCEPT ![s] =
            [@ EXCEPT !.pc = "old",
                      !.counts.past_game_time = CountPast(predictions, sweep[s].now)]]
    /\ SweepUnchanged

\* 2. predictions older than 24 hours
SweepOld(s) ==
    /\ sweep[s].pc = "old"
    /\ predictions' = UpdateOld(predictions, sweep[s].now, sweep[s].cutoff_time)
    /\ sweep' = [sweep EXCEPT ![s] =
            [@ EXCEPT !.pc = "version",
                      !.counts.too_old = CountOld(predictions, sweep[s].cutoff_time)]]
    /\ SweepUnchanged

\* 3. predictions from old versions
SweepVersion(s) ==
    /\ sweep[s].pc = "version"
    /\ predictions' = UpdateVersion(predictions, sweep[s].now)
    /\ sweep' = [sweep EXCEPT ![s] =
            [@ EXCEPT !.pc = "commit",
                      !.counts.wrong_version = CountVersion(predictions)]]
    /\ SweepUnchanged

\* db.commit() and the total
SweepCommit(s) ==
    /\ sweep[s].pc = "commit"
    /\ LET c == sweep[s].counts
       IN  sweep' = [sweep EXCEPT ![s] =
               [@ EXCEPT !.pc = "done",
                         !.counts.total = c.past_game_time + c.too_old
                                          + c.wrong_version]]
    /\ UNCHANGED predictions
    /\ SweepUnchanged

\* ------------------------------------------------------ get_opportunities
Filters(position, stat_type, min_confidence, min_edge, sort_by, limit) ==
    [position |-> position, stat_type |-> stat_type,
     min_confidence |-> min_confidence, min_edge |-> min_edge,
     sort_by |-> sort_by, limit |-> limit]

\* the query parameters tried: each filter absent and present (a confidence
\* in tenths, an edge in tenths), every sort key and an unknown one
FilterInputs ==
    { Filters(p, s, c, e, o, l) :
        p \in {NULL, "QB"}, s \in {NULL, "passing_yards"}, c \in {0, 730},
        e \in {0, 100}, o \in {"edge", "confidence", "game_time", "name"},
        l \in {1, 50} }

\* a base query without its is_active condition
BaseQuery_archivedOnly(x) == ~x.is_archived

\* the base query: only active predictions
BaseQuery(x) == x.is_active /\ ~x.is_archived

\* the WHERE clauses of the query
Matching(rows, f) ==
    { i \in DOMAIN rows :
        /\ BaseQuery(rows[i])
        /\ Truthy(f.position) => rows[i].player_position = f.position
        /\ Truthy(f.stat_type) => rows[i].stat_type = f.stat_type
        /\ f.min_confidence > 0 => rows[i].confidence >= f.min_confidence
        /\ f.min_edge > 0 => rows[i].edge >= f.min_edge }

\* ORDER BY: x sorts strictly before y (a NULL game_time sorts last)
SortsBefore(x, y, sort_by) ==
    CASE sort_by = "confidence" -> x.confidence > y.confidence
      [] sort_by = "game_time"  -> /\ x.game_time # NoInt
                                   /\ (y.game_time = NoInt \/ x.game_time < y.game_time)
      [] OTHER                  -> x.edge > y.edge

\* get_opportunities: the rows the response may list, which are the matching
\* rows with fewer than "limit" matching rows sorting strictly before them
\* (the order among rows with equal keys is the database's choice)
get_opportunities(rows, f) ==
    LET m == Matching(rows, f)
    IN  { i \in m :
            Cardinality({ j \in m : SortsBefore(rows[j], rows[i], f.sort_by) })
                < f.limit }

\* ------------------------------------------------------- specifications
RequestStep ==
    \/ \E request \in Requests : ReqStart(request)
    \/ ReqValidate
    \/ ReqAggregate
    \/ ReqRetrieve
    \/ ReqReason
    \/ ReqPersist
    \/ ReqFinish

BatchStep ==
    \/ \E r \in Runs, week \in Weeks, season \in Seasons : BatchStart(r, week, season)
    \/ \E r \in Runs : BatchCheck(r)
    \/ \E r \in Runs : BatchAggregate(r)
    \/ \E r \in Runs : BatchRetrieve(r)
    \/ \E r \in Runs : BatchReason(r)
    \/ \E r \in Runs : BatchPersist(r)
    \/ \E r \in Runs : BatchSleep(r)

SweepStep ==
    \/ \E s \in Sweepers : SweepStart(s)
    \/ \E s \in Sweepers : SweepPast(s)
    \/ \E s \in Sweepers : SweepOld(s)
    \/ \E s \in Sweepers : SweepVersion(s)
    \/ \E s \in Sweepers : SweepCommit(s)

Next == Tick \/ RequestStep \/ BatchStep \/ SweepStep

\* requests, batch runs and sweeps, one operation at a time, while the clock
\* advances between them
Spec == Init /\ [][Next]_vars

InitPipelines ==
    /\ InitData
    /\ concurrent = 1
    /\ budget = [ops |-> 3, runs |-> 2, faults |-> MaxFaults]

\* requests and batch runs, one at a time, with failing collaborators
SpecPipelines == InitPipelines /\ [][RequestStep \/ BatchStep]_vars

\* every run is asked for the week of the one scheduled game
InitOverlap ==
    /\ InitStore
    /\ games = << GameRow("g9", 9, "KC", "WSH", 20, FALSE) >>
    /\ nfl_week = 9
    /\ concurrent = 2
    /\ budget = [ops |-> 3, runs |-> 3, faults |-> 0]

\* batch runs whose steps interleave
SpecOverlap == InitOverlap /\ [][BatchStep]_vars


\* a batch run and two sweeps on the two-week schedule
InitConcurrent ==
    /\ InitStore
    /\ games = << GameRow("g9", 9, "KC", "WSH", 20, FALSE),
                  GameRow("g10", 10, "SF", "KC", 100, FALSE) >>
    /\ nfl_week = 9
    /\ concurrent = 3
    /\ budget = [ops |-> 3, runs |-> 1, faults |-> 0]

\* sweeps and a batch run whose steps interleave, the clock advancing while
\* nothing is in flight
SpecConcurrent == InitConcurrent /\ [][Tick \/ BatchStep \/ SweepStep]_vars


\* requests alone, with failing collaborators, on the schedules and on the
\* table with a doubled row
InitValidator ==
    /\ InitStore
    /\ games \in Schedules \cup {DoubleBooked}
    /\ nfl_week \in Weeks
    /\ concurrent = 1
    /\ budget = [ops |-> 2, runs |-> 0, faults |-> MaxFaults]

SpecValidator == InitValidator /\ [][RequestStep]_vars

\* =================================================================== claims
NewRows == { i \in DOMAIN predictions' : i > Len(predictions) }

\* what the Schedule Validator resolves for a player and a period when the
\* caller claims no opponent
Scheduled(season, week, player) ==
    _validate_and_get_opponent(games, TRUE, week, season, player, NULL)

\* C1: every Prediction persisted by the single-request pipeline or by the
\* batch orchestrator stores the opponent the Schedule Validator resolves for
\* the player and the period of that pipeline, never a claimed opponent that
\* differs from it.
C1_StoredOpponentIsScheduled ==
    [][ \A i \in NewRows :
          LET row == predictions'[i]
          IN  /\ (req.pc = "persist" /\ req'.pc = "done") =>
                    LET v == Scheduled(PredictionSeason, nfl_week, req.player)
                    IN  /\ v.ok
                        /\ row.opponent = v.opponent
                        /\ (Truthy(req.request.opponent)
                            /\ req.request.opponent # v.opponent)
                               => row.opponent # req.request.opponent
              /\ \A r \in Runs :
                    (batch[r].pc = "persist" /\ batch'[r].pc = "sleep") =>
                        LET v == Scheduled(batch[r].season, batch[r].week,
                                           RunPlayer(batch[r]))
                        IN  v.ok /\ row.opponent = v.opponent ]_vars

\* a request that claimed "wsh" stored "WSH", next to a row of a batch run
C1_Witness ==
    /\ req.pc = "done"
    /\ req.request.opponent = "wsh"
    /\ req.response.status = 200
    /\ predictions[req.response.id].opponent = "WSH"
    /\ \E j \in DOMAIN predictions :
          predictions[j].week = 9 /\ predictions[j].opponent = "WSH"

\* the request claims an opponent, its player's team has one game this week,
\* not completed, and the claim differs from that game's other team
MismatchCase ==
    /\ Truthy(req.request.opponent)
    /\ ~Truthy(req.request.prop_id)
    /\ Truthy(req.player.team_id)
    /\ LET mine == TeamGames(games, PredictionSeason, nfl_week, req.player.team_id)
       IN  /\ Len(mine) = 1
           /\ ~mine[1].is_completed
           /\ Upper(req.request.opponent)
                # Upper(OtherTeam(mine[1], req.player.team_id))

\* C2: a single request whose claimed opponent case-insensitively differs
\* from the scheduled opponent is rejected with an error naming the claimed
\* and the actual opponent and the matchup; no reasoning call is made and no
\* Prediction is persisted.  (A request whose period lookup failed is
\* rejected for that reason instead.)
C2_MismatchRejected ==
    (req.pc \notin {"idle", "validate"} /\ MismatchCase) =>
        LET mine == TeamGames(games, PredictionSeason, nfl_week, req.player.team_id)
            e    == req.response.error
        IN  /\ req.pc = "done"
            /\ req.response.status >= 400
            /\ req.response.id = 0
            /\ req.trace = << "rejected" >>
            /\ e.kind \in {"mismatch", "failed"}
            /\ e.kind = "mismatch" =>
                  /\ e.provided = req.request.opponent
                  /\ e.actual = OtherTeam(mine[1], req.player.team_id)
                  /\ e.away = mine[1].away_team_id
                  /\ e.home = mine[1].home_team_id
                  /\ e.week = nfl_week

\* the request that claimed SF against the scheduled WSH has been rejected
C2_Witness ==
    /\ req.pc = "done"
    /\ req.request.opponent = "SF"
    /\ req.response.error.kind = "mismatch"
    /\ req.response.error.actual = "WSH"
    /\ predictions = << >>

PipelineOrder == << "validate", "aggregate", "retrieve", "reason", "persist" >>

IsPrefix(t, u) == Len(t) <= Len(u) /\ \A i \in DOMAIN t : t[i] = u[i]

\* the steps a pipeline has run, a failed commit counted as the persist step
StepsRun(trace) ==
    [i \in DOMAIN trace |->
        IF trace[i] = "persist_failed" THEN "persist" ELSE trace[i]]

InOrder(trace) == trace = << "rejected" >> \/ IsPrefix(StepsRun(trace), PipelineOrder)

\* C3: in every run of the single-prediction pipeline, started by a request
\* or by the batch orchestrator, the Schedule Validator succeeds before any
\* other step and the steps run in the order validate, aggregate, retrieve,
\* reason, persist.
C3_ValidatorFirst ==
    /\ InOrder(req.trace)
    /\ \A r \in Runs : InOrder(batch[r].trace)


ActiveWith(t) == { i \in DOMAIN predictions :
                     predictions[i].is_active /\ Tuple(predictions[i]) = t }

\* C4: two batch runs in sequence for the same period: the second generates
\* nothing for a tuple the first persisted, and no tuple the runs persisted
\* has two active Predictions.
C4_SecondRunGeneratesNothing ==
    \A r1 \in Runs, r2 \in Runs :
        (r1 < r2 /\ batch[r2].pc # "idle" /\ batch[r1].week = batch[r2].week
         /\ batch[r1].season = batch[r2].season) =>
            /\ batch[r1].generated \cap batch[r2].generated = {}
            /\ \A t \in batch[r1].generated \cup batch[r2].generated :
                  Cardinality(ActiveWith(t)) <= 1

\* the first run persisted the whole catalog, the second run of the same week
\* went through it and generated nothing
C4_Witness ==
    /\ batch[1].pc = "done" /\ batch[2].pc = "done"
    /\ batch[1].week = batch[2].week
    /\ batch[1].predictions_generated = Len(Catalog("QB"))
    /\ batch[2].summary.keys # EmptySummary.keys
    /\ batch[2].predictions_generated = 0
    /\ batch[2].predictions_failed = 0

\* C5: two batch runs for the same period that interleave at every await
\* never leave two active Predictions for the same (player, metric, line,
\* period) tuple.
C5_OverlapNoDuplicates ==
    \A i \in DOMAIN predictions :
        Cardinality(ActiveWith(Tuple(predictions[i]))) <= 1

\* C6: across single requests and batch runs a Prediction is created once per
\* (player, metric, line, period) tuple: no two active Predictions share one.
C6_CreatedOnce ==
    \A i \in DOMAIN predictions, j \in DOMAIN predictions :
        (i < j /\ predictions[i].is_active /\ predictions[j].is_active) =>
            ~ ( /\ predictions[i].player_id = predictions[j].player_id
                /\ predictions[i].stat_type = predictions[j].stat_type
                /\ predictions[i].line_score = predictions[j].line_score
                /\ predictions[i].week = predictions[j].week
                /\ predictions[i].season = predictions[j].season )

Last(seq) == seq[Len(seq)]

\* C7: when the Similarity Retriever fails the pipeline goes on to the
\* reasoning call with zero similar situations, and the Prediction it then
\* persists has similar_situations_count = 0.
C7_RetrievalFailureDegrades ==
    /\ req.rag_error =>
          /\ req.pc \in {"reason", "persist", "done"}
          /\ req.similar = 0
          /\ req.pc \in {"persist", "done"} => req.trace[4] = "reason"
          /\ (req.pc = "done" /\ req.result.ok /\ Last(req.trace) = "persist") =>
                /\ req.response.status = 200
                /\ predictions[req.response.id].similar_situations_count = 0
    /\ \A r \in Runs :
          batch[r].rag_error =>
             /\ batch[r].pc \in {"reason", "persist", "sleep"}
             /\ batch[r].similar = 0
             /\ batch[r].pc \in {"persist", "sleep"} => batch[r].trace[3] = "reason"
             /\ (batch[r].pc = "sleep" /\ Last(batch[r].trace) = "persist") =>
                   Last(predictions).similar_situations_count = 0

\* a request whose retrieval failed has been answered with a Prediction
C7_Witness ==
    /\ req.pc = "done"
    /\ req.rag_error
    /\ req.response.status = 200
    /\ predictions[req.response.id].similar_situations_count = 0
    /\ vector_hits > 0


\* C8: a Prediction that is inactive stays inactive: no sweep, no batch step
\* and no request step sets is_active back to true (and no row goes away).
C8_NoReactivation ==
    [][ \A i \in DOMAIN predictions :
          ~predictions[i].is_active =>
              (i \in DOMAIN predictions' /\ ~predictions'[i].is_active) ]_vars

\* a row the first sweep deactivated is still inactive after a later sweep
C8_Witness ==
    /\ sweep[1].pc = "done" /\ sweep[2].pc = "done"
    /\ sweep[2].now > sweep[1].now
    /\ \E i \in DOMAIN predictions :
          ~predictions[i].is_active /\ predictions[i].updated_at = sweep[1].now

\* stale at an instant: game time past, older than 24 hours, or another version
StaleAt(x, now) ==
    \/ (x.game_time # NoInt /\ x.game_time < now)
    \/ x.created_at < now - max_age_hours
    \/ x.model_version # CURRENT_PREDICTION_VERSION

\* C9: when a sweep has run its updates with no other writer in between, no
\* Prediction is active that was stale at the sweep's time.
C9_SweepLeavesNoStale ==
    \A s \in Sweepers :
        sweep[s].pc = "commit" =>
            \A i \in DOMAIN predictions :
                predictions[i].is_active => ~StaleAt(predictions[i], sweep[s].now)

\* a sweep that found rows past their game time and rows older than 24 hours
C9_Witness ==
    \E s \in Sweepers :
        /\ sweep[s].pc = "commit"
        /\ sweep[s].counts.past_game_time > 0
        /\ sweep[s].counts.too_old > 0
        /\ \A i \in DOMAIN predictions : ~predictions[i].is_active

\* C10: a second sweep at the same instant on the table a first sweep left
\* changes no row and reports zero for every category and for the total.
C10_SweepIdempotent ==
    LET first  == cleanup_stale_predictions(predictions, clock)
        second == cleanup_stale_predictions(first.rows, clock)
    IN  /\ second.rows = first.rows
        /\ second.counts = ZeroCounts

\* two sweeps at the same instant: the first deactivated rows, the second
\* reported zeros
C10_Witness ==
    /\ sweep[1].pc = "done" /\ sweep[2].pc = "done"
    /\ sweep[1].now = sweep[2].now
    /\ sweep[1].counts.total > 0
    /\ sweep[2].counts = ZeroCounts


\* the rows whose is_active goes from true to false in a step
Flipped == { i \in DOMAIN predictions :
               predictions[i].is_active /\ ~predictions'[i].is_active }

\* what a sweep has counted so far
Counted(s) == sweep[s].counts.past_game_time + sweep[s].counts.too_old
              + sweep[s].counts.wrong_version

SweepMoves(s) == sweep'[s] # sweep[s]

\* C11: sweeps that overlap each other and a batch run: a row changes only by
\* a sweep's update taking an active row that is stale at that sweep's time
\* to inactive (an inactive row is never touched, no row goes away, no row
\* comes back), and the rows deactivated are as many as the sweeps counted
\* together, so each deactivation is counted by exactly one sweep.
C11_ConcurrentSweepsSafe ==
    /\ [](Counted(1) + Counted(2)
            = Cardinality({ i \in DOMAIN predictions : ~predictions[i].is_active }))
    /\ [][ /\ Len(predictions') >= Len(predictions)
           /\ \A i \in DOMAIN predictions :
                 \/ predictions'[i] = predictions[i]
                 \/ /\ i \in Flipped
                    /\ predictions'[i] =
                          [predictions[i] EXCEPT !.is_active = FALSE,
                                !.updated_at = predictions'[i].updated_at]
                    /\ \E s \in Sweepers :
                          /\ SweepMoves(s)
                          /\ StaleAt(predictions[i], sweep[s].now)
                          /\ Counted(s)' = Counted(s) + Cardinality(Flipped) ]_vars

\* both sweeps are between their updates while the batch run is under way,
\* each sweep has deactivated a row, and a row of the run is still active
C11_Witness ==
    /\ sweep[1].pc \in {"old", "version", "commit"}
    /\ sweep[2].pc \in {"old", "version", "commit"}
    /\ \E r \in Runs : batch[r].pc \notin {"idle", "done"}
    /\ Counted(1) > 0 /\ Counted(2) > 0
    /\ \E i \in DOMAIN predictions : predictions[i].is_active

\* the three reasons for going stale at an instant
GamePast(x, now) == x.game_time # NoInt /\ x.game_time < now
Aged(x, now) == x.created_at < now - max_age_hours
OtherVersion(x) == x.model_version # CURRENT_PREDICTION_VERSION

C13_WriteContract ==
    [][ \A i \in NewRows :
          /\ predictions'[i].is_active
          /\ ~predictions'[i].is_archived
          /\ predictions'[i].model_version = CURRENT_PREDICTION_VERSION ]_vars


\* the rules a provider response has to meet, as the contract lists them
Violates(raw) ==
    \/ ~raw.json
    \/ \E f \in RequiredFields : f \notin raw.fields
    \/ raw.prediction \notin {"OVER", "UNDER"}
    \/ raw.confidence < 0
    \/ raw.confidence > 1000

\* the combinations a run has to go through: every line of the catalog of
\* every candidate player whose team plays one of the run's games
Combinations(run) ==
    UNION { { << i, k >> : k \in DOMAIN Catalog(run.players[i].player_position) } :
            i \in { j \in DOMAIN run.players :
                      \E g \in DOMAIN run.games :
                         run.players[j].team_id \in {run.games[g].home_team_id,
                                                     run.games[g].away_team_id} } }

Earlier(a, b) == a[1] < b[1] \/ (a[1] = b[1] /\ a[2] < b[2])

At(run) == << run.pi, run.ci >>

Remaining(run) == { c \in Combinations(run) : Earlier(At(run), c) }

\* a step of run r in which the pipeline of its combination fails
FailsIn(r) ==
    \/ /\ batch[r].pc = "check"
       /\ \/ budget'.faults < budget.faults
          \/ batch[r].aborted
          \/ Cardinality(ActiveWith(<< RunPlayer(batch[r]).id,
                                       RunProp(batch[r]).stat_type,
                                       RunProp(batch[r]).line_score,
                                       batch[r].week >>)) > 1
    \/ batch[r].pc = "reason" /\ Violates(batch'[r].raw)
    \/ batch[r].pc = "persist" /\ Len(predictions') = Len(predictions)

C15_FourCounters ==
    \A r \in Runs :
        batch[r].pc = "done" =>
            /\ batch[r].summary.returned
            /\ batch[r].summary.keys = {"predictions_generated", "predictions_failed",
                                        "games_found", "players_processed"}
            /\ batch[r].summary.predictions_generated
                  = Cardinality(batch[r].generated)
            /\ batch[r].summary.predictions_failed = batch[r].predictions_failed

\* C16: when the existence check of a batch run finds an active Prediction
\* for the combination's (player, metric, line, period), the run leaves the
\* combination without a reasoning call, writes nothing and increments
\* neither predictions_generated nor predictions_failed.
C16_ExistingSkipped ==
    [][ \A r \in Runs :
          LET run == batch[r]
              nxt == batch'[r]
          IN  ( /\ run.pc = "check" /\ nxt # run
                /\ ActiveWith(<< RunPlayer(run).id, RunProp(run).stat_type,
                                 RunProp(run).line_score, run.week >>) # {} ) =>
                /\ nxt.pc \in {"check", "done"}
                /\ predictions' = predictions
                /\ nxt.predictions_generated = run.predictions_generated
                /\ nxt.predictions_failed = run.predictions_failed ]_vars

Called(trace) == \E i \in DOMAIN trace : trace[i] = "reason"

\* C17: in a batch run a combination makes at most one reasoning call, and a
\* run that made one, whether it succeeded or failed, leaves the combination
\* only from the inter-call delay: the delay lies between any two successive
\* reasoning calls of the run.
C17_DelayBetweenCalls ==
    [][ \A r \in Runs :
          LET run == batch[r]
              nxt == batch'[r]
          IN  /\ (Called(run.trace) /\ nxt # run
                  /\ (At(nxt) # At(run) \/ nxt.pc \in {"check", "done"}))
                    => run.pc = "sleep"
              /\ (run.pc = "reason" /\ nxt # run) => ~Called(run.trace)
              /\ (run.pc = "sleep" /\ nxt # run) => ~Called(nxt.trace) ]_vars

\* a reasoning call whose response was refused is followed by the delay while
\* combinations are still to come
C17_Witness ==
    \E r \in Runs :
        /\ batch[r].pc = "sleep"
        /\ Last(batch[r].trace) = "reason"
        /\ Violates(batch[r].raw)
        /\ batch[r].predictions_failed = 1
        /\ Remaining(batch[r]) # {}


\* C18: a provider response that breaks a validation rule (no JSON object, one
\* of prediction, confidence, projected_value, reasoning missing, a direction
\* other than OVER and UNDER, a confidence outside 0..100) fails the pipeline
\* as a whole: nothing of the response is accepted, no value is defaulted, the
\* pipeline ends at the reasoning step and persists no Prediction.
C18_ViolationFailsPipeline ==
    /\ (req.raw # NoRaw /\ Violates(req.raw)) =>
          /\ req.pc = "done"
          /\ req.result = NoResult
          /\ Last(req.trace) = "reason"
          /\ req.response.status = 500
          /\ req.response.id = 0
    /\ \A r \in Runs :
          (batch[r].raw # NoRaw /\ Violates(batch[r].raw)) =>
             /\ batch[r].pc = "sleep"
             /\ batch[r].result = NoResult
             /\ Last(batch[r].trace) = "reason"
             /\ batch[r].predictions_failed > 0
             /\ Tuple([player_id |-> RunPlayer(batch[r]).id,
                       stat_type |-> RunProp(batch[r]).stat_type,
                       line_score |-> RunProp(batch[r]).line_score,
                       week |-> batch[r].week]) \notin batch[r].generated

\* the request whose response said FLAT has failed and the table is empty
C18_Witness ==
    /\ req.pc = "done"
    /\ req.raw.prediction = "FLAT"
    /\ req.response.status = 500
    /\ predictions = << >>

InRange(direction, confidence) ==
    /\ direction \in {"OVER", "UNDER"}
    /\ confidence % 10 = 0
    /\ 0 <= confidence /\ confidence <= 1000

\* C19: every result the Reasoning Invoker accepts, and every Prediction
\* persisted, has a direction that is OVER or UNDER and a confidence that is
\* an integer in 0..100.
C19_AcceptedInRange ==
    /\ req.result.ok => InRange(req.result.prediction, req.result.confidence)
    /\ \A r \in Runs :
          batch[r].result.ok =>
             InRange(batch[r].result.prediction, batch[r].result.confidence)
    /\ \A i \in DOMAIN predictions :
          InRange(predictions[i].prediction, predictions[i].confidence)

\* C20: a single request refused for a schedule error (no game of the week,
\* the game already completed, a claimed opponent that differs) is answered
\* with a 4xx status, unlike the 5xx of a refused provider response.
C20_ScheduleErrorIs4xx ==
    ( /\ req.pc = "done"
      /\ req.response.error.kind \in {"no_game", "completed", "mismatch"} ) =>
        /\ 400 <= req.response.status
        /\ req.response.status < 500

\* the games of the season a team has in a week
GamesOf(team, week) ==
    { i \in DOMAIN games : /\ games[i].season = PredictionSeason
                            /\ games[i].week = week
                            /\ team \in {games[i].home_team_id,
                                          games[i].away_team_id} }

\* C21: when the period lookup answered and the player has a team, the
\* validator rejects with "no game scheduled" when the team has no game in
\* the period, and with "game already completed" when its one game is
\* completed, whatever opponent the caller claimed: a claimed opponent that
\* matches the schedule does not get through, and one that differs is not
\* reported as a mismatch.
C21_ScheduleBeforeOpponent ==
    [][ (req.pc = "validate" /\ budget' = budget /\ Truthy(req.player.team_id)) =>
          LET mine == GamesOf(req.player.team_id, nfl_week)
              e    == req'.response.error
          IN  /\ mine = {} =>
                    /\ req'.pc = "done" /\ req'.response.raised = 400
                    /\ e.kind = "no_game"
                    /\ e.week = nfl_week /\ e.team = req.player.team_id
              /\ \A i \in mine : (mine = {i} /\ games[i].is_completed) =>
                    /\ req'.pc = "done" /\ req'.response.raised = 400
                    /\ e.kind = "completed"
                    /\ e.away = games[i].away_team_id
                    /\ e.home = games[i].home_team_id ]_vars

\* a request that claimed the opponent of the schedule was rejected because
\* the game is completed
C21_Witness ==
    /\ req.pc = "done"
    /\ req.response.error.kind = "completed"
    /\ Truthy(req.request.opponent)
    /\ \E i \in GamesOf(req.player.team_id, nfl_week) :
          Upper(req.request.opponent)
              \in {games[i].home_team_id, games[i].away_team_id} \ {req.player.team_id}

ReasonKinds == {"failed", "no_team", "no_game", "completed", "mismatch"}

\* C22: the validator never raises. Whatever the request, the games table
\* and the collaborators do (the period lookup failing, a player without a
\* team, no row or several rows for the team and week), the validation step
\* ends either with an opponent and the week, and the pipeline goes on, or
\* with a rejection that carries a reason and is answered as the validator's
\* own error, never as an unexpected exception.
C22_ValidatorNeverRaises ==
    [][ req.pc = "validate" =>
          \/ /\ req'.pc = "aggregate"
             /\ Truthy(req'.opponent)
             /\ req'.current_week = nfl_week
             /\ req'.response = NoResponse
          \/ /\ req'.pc = "done"
             /\ req'.response.raised = 400
             /\ req'.response.error.kind \in ReasonKinds
             /\ req'.trace = << "rejected" >>
             /\ predictions' = predictions ]_vars

\* a request for a player whose team has two rows in the week was rejected
\* with the validator's failure message
C22_Witness ==
    /\ req.pc = "done"
    /\ req.response.raised = 400
    /\ req.response.error.kind = "failed"
    /\ Cardinality(GamesOf(req.player.team_id, nfl_week)) = 2

SeasonSamples(player_id) ==
    { i \in DOMAIN PlayerGameStats :
        /\ PlayerGameStats[i].player_id = player_id
        /\ PlayerGameStats[i].season = PredictionSeason }

Recorded(player_id, stat_type) ==
    { i \in SeasonSamples(player_id) : PlayerGameStats[i][stat_type] # NoInt }

IsZeroBundle(b) ==
    /\ {"games_played", "avg_per_game", "last_3_games", "std_dev"} \subseteq b.keys
    /\ b.games_played = 0 /\ b.avg_per_game = 0
    /\ b.last_3_games = << >> /\ b.std_dev = 0

C25_NullSamplesExcluded ==
    \A r \in Runs :
        (/\ batch[r].pc \in {"retrieve", "reason", "persist"}
         /\ batch[r].current_stats.keys # {}
         /\ RunProp(batch[r]).stat_type \in StatMappingKeys) =>
            LET b     == batch[r].current_stats
                stat  == RunProp(batch[r]).stat_type
                rec   == Recorded(RunPlayer(batch[r]).id, stat)
                n     == Cardinality(rec)
                val(i) == PlayerGameStats[i][stat]
                total == Sum([k \in 1..n |->
                            val(CHOOSE i \in rec :
                                  Cardinality({ j \in rec : j < i }) = k - 1)])
                later(i) == { j \in rec : PlayerGameStats[j].week
                                             > PlayerGameStats[i].week }
            IN  /\ b.games_played = n
                /\ n > 0 =>
                     /\ 2 * n * b.avg_per_game - 200 * total \in (0 - n)..n
                     /\ \E i \in rec : b.min = val(i)
                     /\ \A i \in rec : b.min <= val(i) /\ val(i) <= b.max
                     /\ \E i \in rec : b.max = val(i)
                /\ Len(b.last_3_games) = (IF n < 3 THEN n ELSE 3)
                /\ \A i \in rec : Cardinality(later(i)) < 3 =>
                       b.last_3_games[Cardinality(later(i)) + 1] = val(i)

\* C30: every metric name of the batch catalog is one the Stat Aggregator's
\* extractor reads: a run never aggregates on a name that is no key of the
\* extractor's mapping.
C30_CatalogExtractable ==
    \A r \in Runs :
        (batch[r].pc \in {"retrieve", "reason", "persist"}
         /\ batch[r].current_stats.keys # {}) =>
            /\ RunProp(batch[r]).stat_type \in StatMappingKeys
            /\ (\E i \in Recorded(RunPlayer(batch[r]).id,
                                   RunProp(batch[r]).stat_type) : TRUE) =>
                   "min" \in batch[r].current_stats.keys

\* C26: whatever filters, sort key and limit the opportunities read is given,
\* every Prediction it may return is active and not archived, on every table
\* the writers and the sweep produce.
C26_FeedOnlyActive ==
    \A f \in FilterInputs :
        \A i \in get_opportunities(predictions, f) :
            predictions[i].is_active /\ ~predictions[i].is_archived

\* the table holds a deactivated row and an active one, and the unfiltered
\* read returns the active one
C26_Witness ==
    /\ \E i \in DOMAIN predictions : ~predictions[i].is_active
    /\ \E j \in DOMAIN predictions :
          /\ predictions[j].is_active
          /\ j \in get_opportunities(predictions,
                       Filters(NULL, NULL, 0, 0, "edge", 50))
    /\ \E f \in FilterInputs :
          get_opportunities(predictions, f)
              # get_opportunities(predictions, Filters(NULL, NULL, 0, 0, "edge", 50))

\* C27: a step of the sweep deletes no Prediction and adds none, and a row
\* it touches was active and differs afterwards only in is_active, now
\* false, and in updated_at, now the sweep's instant; every other field of
\* every row is as before.
C27_SweepOnlyDeactivates ==
    [][ \A s \in Sweepers :
          sweep'[s] # sweep[s] =>
            /\ Len(predictions') = Len(predictions)
            /\ \A i \in DOMAIN predictions :
                  \/ predictions'[i] = predictions[i]
                  \/ /\ predictions[i].is_active
                     /\ ~predictions'[i].is_active
                     /\ predictions'[i].updated_at = sweep'[s].now
                     /\ \A c \in DOMAIN predictions[i] \ {"is_active", "updated_at"} :
                           predictions'[i][c] = predictions[i][c] ]_vars

\* a sweep returned after it deactivated a row written hours before: the row
\* is still there with its direction, its confidence and its creation time
C27_Witness ==
    \E s \in Sweepers : \E i \in DOMAIN predictions :
        /\ sweep[s].pc = "done"
        /\ sweep[s].counts.total >= 1
        /\ ~predictions[i].is_active
        /\ predictions[i].updated_at = sweep[s].now
        /\ predictions[i].created_at < sweep[s].now
        /\ predictions[i].prediction \in {"OVER", "UNDER"}
        /\ predictions[i].confidence = 720

\* C28: the row a single request persists carries the week the validator
\* resolved and the start time of the game it found, so that the batch
\* existence check, keyed on the week, finds the row and the sweep's
\* past-game-time criterion applies to it.
C28_RequestRowHasWeekAndTime ==
    [][ req.pc = "persist" =>
          \A i \in NewRows :
              /\ predictions'[i].week = req.current_week
              /\ \E g \in GamesOf(req.player.team_id, req.current_week) :
                    predictions'[i].game_time = games[g].game_time ]_vars

\* C29: a step of a sweep leaves active every Prediction the pipeline wrote
\* whose game starts after the sweep's instant and which is younger than
\* max_age_hours at that instant.
C29_FreshRowSurvivesSweep ==
    [][ \A s \in Sweepers :
          SweepMoves(s) =>
            \A i \in DOMAIN predictions :
                (/\ predictions[i].is_active
                 /\ predictions[i].game_time # NoInt
                 /\ predictions[i].game_time > sweep'[s].now
                 /\ predictions[i].created_at > sweep'[s].now - max_age_hours) =>
                    predictions'[i].is_active ]_vars

====
